---- MODULE Spec2Model ----
(***************************************************************************)
(* Token issuing and verification of kubernetes-ldap (package token).      *)
(*                                                                         *)
(* src/token/verifier.go holds two generations of the package:             *)
(*   lines   1- 79  ecdsaVerifier, NewVerifier, TokenExpired  (JSON)       *)
(*   lines  81-256  Issuer, Verifier, GenerateKeypair         (protobuf)   *)
(* Both are modelled, each under its own name.                             *)
(*                                                                         *)
(* Cryptography and encodings are abstracted to what the calls decide:     *)
(*   - a key is a record (type, curve, keypair id, half);                  *)
(*   - a signature is a record naming the signing keypair and the header   *)
(*     and payload it was computed over, plus which of the two equivalent  *)
(*     ECDSA values (r,s) / (r,n-s) it is;                                 *)
(*   - a payload is a record naming its encoding and the token encoded.    *)
(***************************************************************************)
EXTENDS Integers, Sequences, FiniteSets, TLC

VARIABLES fs, gen, iss, ev, ver, wire, issued, observed, ret

vars == <<fs, gen, iss, ev, ver, wire, issued, observed, ret>>

(* ------------------------------ bounds --------------------------------- *)

MaxExpiration == 2

MaxNowMillis == 2

(* --------------------------- program constants -------------------------- *)

Millisecond == 1000000

curveName == "P-256"

curveJose == "ES256"

(* A Go nil pointer / nil func value. *)
Nil == [nil |-> TRUE]

NoError == "nil"

(* ------------------------------- keys ----------------------------------- *)

(* Keypairs that can exist on the machine: two on P-256, one on P-384 and  *)
(* one RSA keypair.                                                        *)
PrivateKeys ==
    { [typ |-> "ecdsa", curve |-> "P-256", id |-> "A", half |-> "private"],
      [typ |-> "ecdsa", curve |-> "P-256", id |-> "B", half |-> "private"],
      [typ |-> "ecdsa", curve |-> "P-384", id |-> "C", half |-> "private"],
      [typ |-> "rsa",   curve |-> "none",  id |-> "R", half |-> "private"] }

Public(priv) == [priv EXCEPT !.half = "public"]

PublicKeys == { Public(k) : k \in PrivateKeys }

(* ecdsa.GenerateKey(curveEll, rand.Reader): any fresh key on P-256.       *)
curveEll == { k \in PrivateKeys : k.typ = "ecdsa" /\ k.curve = "P-256" }

(* x509.MarshalECPrivateKey: SEC 1 DER of an EC private key.               *)
MarshalECPrivateKey(priv) == [format |-> "SEC1", key |-> priv]

(* x509.MarshalPKIXPublicKey: PKIX DER of a public key.                    *)
MarshalPKIXPublicKey(pub) == [format |-> "PKIX", key |-> pub]

NoFile == [format |-> "absent"]

Garbage == [format |-> "garbage"]

(* What a key file can hold: nothing, undecodable bytes, or a key.         *)
PrivContents ==
    {NoFile, Garbage}
      \cup { IF k.typ = "ecdsa" THEN MarshalECPrivateKey(k)
                                ELSE [format |-> "PKCS1", key |-> k] : k \in PrivateKeys }

PubContents ==
    {NoFile, Garbage} \cup { MarshalPKIXPublicKey(k) : k \in PublicKeys }

Paths == {"signing"}

PrivFile(filename) == <<filename, ".priv">>

PubFile(basename) == <<basename, ".pub">>

getPublicKeyFilename(dirname) == PubFile(dirname)

(* jose.LoadPrivateKey: PKCS1, SEC1 or PKCS8 DER (or PEM) of a private key.*)
LoadPrivateKey(buf) ==
    IF buf.format \in {"PKCS1", "SEC1", "PKCS8"} /\ buf.key.half = "private"
    THEN [key |-> buf.key, err |-> NoError]
    ELSE [key |-> Nil, err |-> "KeyLoadError"]

(* jose.LoadPublicKey: PKIX DER (or PEM) of a public key.                  *)
LoadPublicKey(buf) ==
    IF buf.format = "PKIX" /\ buf.key.half = "public"
    THEN [key |-> buf.key, err |-> NoError]
    ELSE [key |-> Nil, err |-> "KeyLoadError"]

(* Bit size a JWS ECDSA algorithm expects of the key's curve; 0: not ECDSA *)
AlgBits(alg) ==
    CASE alg = "ES256" -> 256
      [] alg = "ES384" -> 384
      [] OTHER -> 0

CurveBits(curve) ==
    CASE curve = "P-256" -> 256
      [] curve = "P-384" -> 384
      [] OTHER -> 0

(* jose.NewSigner(alg, key): the key's type must support the algorithm;   *)
(* the curve is not looked at until the signer signs.                      *)
NewSigner(alg, privateKey) ==
    IF privateKey.typ = "ecdsa" /\ AlgBits(alg) # 0
    THEN [signer |-> [alg |-> alg, key |-> privateKey], err |-> NoError]
    ELSE [signer |-> Nil, err |-> "ErrUnsupportedAlgorithm"]

(* --------------------------- construction ------------------------------- *)

(* What GenerateKeypair writes for the key it generated: the SEC 1 DER of  *)
(* priv to <filename>.priv, the PKIX DER of priv.Public() to               *)
(* <filename>.pub.                                                         *)
GenerateKeypairSwappedPub(priv) ==
    [priv |-> MarshalECPrivateKey(priv),
     pub  |-> MarshalPKIXPublicKey(
                Public(CHOOSE k \in curveEll : k # priv))]

GenerateKeypairFiles(priv) ==
    [priv |-> MarshalECPrivateKey(priv),
     pub  |-> MarshalPKIXPublicKey(Public(priv))]

(* A failed ioutil.WriteFile leaves the file as it was (open failed) or    *)
(* truncated / partly written.                                             *)
FailedWrite(old) == {old, Garbage}

(* GenerateKeypair(filename).  failAt is the step the environment makes    *)
(* fail, "none" for a run without error.                                   *)
GenerateKeypair ==
    \E filename \in Paths, priv \in curveEll,
       failAt \in {"none", "GenerateKey", "WritePriv", "MarshalPub", "WritePub"} :
      LET out == GenerateKeypairFiles(priv)
          pf == PrivFile(filename)
          bf == PubFile(filename)
      IN
      /\ CASE failAt = "GenerateKey" ->
                fs' = fs
           [] failAt = "WritePriv" ->
                \E c \in FailedWrite(fs[pf]) : fs' = [fs EXCEPT ![pf] = c]
           [] failAt = "MarshalPub" ->
                fs' = [fs EXCEPT ![pf] = out.priv]
           [] failAt = "WritePub" ->
                \E c \in FailedWrite(fs[bf]) :
                    fs' = [fs EXCEPT ![pf] = out.priv, ![bf] = c]
           [] OTHER ->
                fs' = [fs EXCEPT ![pf] = out.priv, ![bf] = out.pub]
      /\ gen' = [gen EXCEPT ![filename] =
                    IF failAt = "none" THEN priv.id
                    ELSE IF failAt = "GenerateKey" THEN @ ELSE "none"]
      /\ ret' = [op |-> "GenerateKeypair", filename |-> filename,
                 err |-> IF failAt = "none" THEN NoError ELSE failAt]
      /\ UNCHANGED <<iss, ev, ver, wire, issued, observed>>

(* NewIssuer on the bytes of <filename>.priv.  The curve test assigns err  *)
(* and falls through; the := of the next statement assigns err again.      *)
NewIssuerResult(buf) ==
    IF buf = NoFile THEN [iss |-> Nil, err |-> "ReadFileError"]
    ELSE
    LET loaded == LoadPrivateKey(buf) IN
    IF loaded.err # NoError THEN [iss |-> Nil, err |-> loaded.err]
    ELSE
    LET privateKey == loaded.key IN
    IF privateKey.typ # "ecdsa"
    THEN [iss |-> Nil, err |-> "expected an ECDSA private key"]
    ELSE
    LET ecdsaKey == privateKey
        errCurve == IF ecdsaKey.curve # curveName
                    THEN "expected the key to use P-256" ELSE NoError
        made == NewSigner(curveJose, privateKey)
        err  == made.err          \* overwrites errCurve
    IN
    IF err # NoError THEN [iss |-> Nil, err |-> err]
    ELSE [iss |-> [signer |-> made.signer,
                   publicKey |-> Public(ecdsaKey),
                   LogTokenIssued |-> "nil"],
          err |-> err]

NewIssuer ==
    \E filename \in Paths :
      LET r == NewIssuerResult(fs[PrivFile(filename)]) IN
      /\ iss' = r.iss
      /\ ret' = [op |-> "NewIssuer", filename |-> filename, err |-> r.err,
                 fresh |-> gen[filename]]
      /\ UNCHANGED <<fs, gen, ev, ver, wire, issued, observed>>

(* The body shared by both NewVerifier functions, on the bytes of the      *)
(* public key file: only the key's type is tested.                         *)
NewVerifierResult(buf) ==
    IF buf = NoFile THEN [v |-> Nil, err |-> "ReadFileError"]
    ELSE
    LET loaded == LoadPublicKey(buf) IN
    IF loaded.err # NoError THEN [v |-> Nil, err |-> loaded.err]
    ELSE IF loaded.key.typ # "ecdsa"
    THEN [v |-> Nil, err |-> "Expected the public key to use ECDSA"]
    ELSE [v |-> [publicKey |-> loaded.key], err |-> NoError]

(* NewVerifier of lines 26-44: returns an *ecdsaVerifier.                  *)
NewEcdsaVerifier ==
    \E dirname \in Paths :
      LET r == NewVerifierResult(fs[getPublicKeyFilename(dirname)]) IN
      /\ ev' = r.v
      /\ ret' = [op |-> "NewEcdsaVerifier", filename |-> dirname, err |-> r.err,
                 fresh |-> gen[dirname]]
      /\ UNCHANGED <<fs, gen, iss, ver, wire, issued, observed>>

(* NewVerifier of lines 218-237: returns a *Verifier.                      *)
NewVerifier ==
    \E basename \in Paths :
      LET r == NewVerifierResult(fs[PubFile(basename)]) IN
      /\ ver' = r.v
      /\ ret' = [op |-> "NewVerifier", filename |-> basename, err |-> r.err,
                 fresh |-> gen[basename]]
      /\ UNCHANGED <<fs, gen, iss, ev, wire, issued, observed>>

(* ------------------------- tokens and wire form ------------------------- *)

(* The token entity; Expiration is milliseconds since the epoch.           *)
Tokens == [Expiration : 0..MaxExpiration]

(* proto.Marshal(token): the protobuf encoding; a nil message is an error. *)
protoMarshal(token) ==
    IF token = Nil THEN [bytes |-> Nil, err |-> "EncodingError"]
    ELSE [bytes |-> [enc |-> "proto", tok |-> token], err |-> NoError]

(* json.Marshal(token), the encoding ecdsaVerifier.Verify reads.           *)
jsonMarshal(token) == [enc |-> "json", tok |-> token]

JunkPayload == [enc |-> "junk"]

Payloads ==
    {JunkPayload} \cup { protoMarshal(t).bytes : t \in Tokens }
                  \cup { jsonMarshal(t) : t \in Tokens }

(* proto.Unmarshal(payload, token): only protobuf bytes decode.            *)
protoUnmarshal(payload) ==
    IF payload.enc = "proto"
    THEN [token |-> payload.tok, err |-> NoError]
    ELSE [token |-> Nil, err |-> "PayloadDecodeError"]

(* json.Unmarshal(payload, token): only JSON text decodes.                 *)
jsonUnmarshal(payload) ==
    IF payload.enc = "json"
    THEN [token |-> payload.tok, err |-> NoError]
    ELSE [token |-> Nil, err |-> "PayloadDecodeError"]

(* JWS "alg" values a header segment can declare.                          *)
Algs == {"ES256", "ES384", "RS256"}

JunkSignature == [junk |-> TRUE]

(* The ECDSA signature of key over header.payload.  For a signature (r,s)  *)
(* the pair (r, n-s) is a signature of the same message under the same     *)
(* key: s names which of the two values the segment carries.               *)
Signature(key, hdr, pay, s) ==
    [junk |-> FALSE, key |-> key.id, hdr |-> hdr, pay |-> pay, s |-> s]

(* signer.Sign(payload): computes the signature under the signer's         *)
(* algorithm; the key's curve must have the bit size of that algorithm.    *)
Sign(signer, payload) ==
    IF AlgBits(signer.alg) # CurveBits(signer.key.curve)
    THEN [jws |-> Nil, err |-> "SignError"]
    ELSE [jws |-> [hdr |-> signer.alg, pay |-> payload,
                   sig |-> Signature(signer.key, signer.alg, payload, "low")],
          err |-> NoError]

(* jws.CompactSerialize(): header.payload.signature.                       *)
CompactSerialize(jws) == jws

Malformed == [malformed |-> TRUE]

(* jose.ParseSigned(s): s must split into three base64url segments.        *)
ParseSigned(s) ==
    IF s = Malformed THEN [jws |-> Nil, err |-> "ParseError"]
    ELSE [jws |-> s, err |-> NoError]

(* jws.Verify(publicKey): the algorithm is the one the header declares;    *)
(* it must be an ECDSA algorithm of the key's bit size, and the signature  *)
(* must be one by the key's keypair over this header and payload.          *)
jwsVerifyAnyKey(jws, publicKey) ==
    IF /\ AlgBits(jws.hdr) # 0
       /\ AlgBits(jws.hdr) = CurveBits(publicKey.curve)
       /\ ~jws.sig.junk
       /\ jws.sig.hdr = jws.hdr
       /\ jws.sig.pay = jws.pay
    THEN [payload |-> jws.pay, err |-> NoError]
    ELSE [payload |-> Nil, err |-> "SignatureInvalidError"]

jwsVerifyUnboundPayload(jws, publicKey) ==
    IF /\ AlgBits(jws.hdr) # 0
       /\ AlgBits(jws.hdr) = CurveBits(publicKey.curve)
       /\ ~jws.sig.junk
       /\ jws.sig.key = publicKey.id
       /\ jws.sig.hdr = jws.hdr
    THEN [payload |-> jws.pay, err |-> NoError]
    ELSE [payload |-> Nil, err |-> "SignatureInvalidError"]

jwsVerify(jws, publicKey) ==
    IF /\ AlgBits(jws.hdr) # 0
       /\ AlgBits(jws.hdr) = CurveBits(publicKey.curve)
       /\ ~jws.sig.junk
       /\ jws.sig.key = publicKey.id
       /\ jws.sig.hdr = jws.hdr
       /\ jws.sig.pay = jws.pay
    THEN [payload |-> jws.pay, err |-> NoError]
    ELSE [payload |-> Nil, err |-> "SignatureInvalidError"]

(* Readings of time.Now().UnixNano(): the start and the last nanosecond of *)
(* each millisecond up to the bound (readings after the epoch, where Go's  *)
(* truncating / and \div agree).                                           *)
Clock == { m * Millisecond + r : m \in 0..MaxNowMillis, r \in {0, Millisecond - 1} }

(* TokenExpired(token), with the clock reading it takes.                   *)
TokenExpiredNonStrict(token, unixNano) ==
    LET nowMillis == unixNano \div Millisecond IN
    token.Expiration <= nowMillis

TokenExpired(token, unixNano) ==
    LET nowMillis == unixNano \div Millisecond IN
    token.Expiration < nowMillis

(* ecdsaVerifier.Verify(s) of lines 48-68.                                 *)
ecdsaVerifierVerify(v, s, unixNano) ==
    LET parsed == ParseSigned(s) IN
    IF parsed.err # NoError THEN [token |-> Nil, err |-> parsed.err]
    ELSE
    LET checked == jwsVerify(parsed.jws, v.publicKey) IN
    IF checked.err # NoError THEN [token |-> Nil, err |-> checked.err]
    ELSE
    LET decoded == jsonUnmarshal(checked.payload) IN
    IF decoded.err # NoError THEN [token |-> Nil, err |-> decoded.err]
    ELSE IF TokenExpired(decoded.token, unixNano)
    THEN [token |-> Nil, err |-> "token has expired"]
    ELSE [token |-> decoded.token, err |-> NoError]

(* Verifier.Verify(s) of lines 241-256: no expiration test.                *)
VerifierVerify(v, s) ==
    LET parsed == ParseSigned(s) IN
    IF parsed.err # NoError THEN [token |-> Nil, err |-> parsed.err]
    ELSE
    LET checked == jwsVerify(parsed.jws, v.publicKey) IN
    IF checked.err # NoError THEN [token |-> Nil, err |-> checked.err]
    ELSE
    LET decoded == protoUnmarshal(checked.payload) IN
    IF decoded.err # NoError THEN [token |-> Nil, err |-> decoded.err]
    ELSE [token |-> decoded.token, err |-> NoError]

(* Issuer.Issue(token) of lines 188-216.  The block that calls             *)
(* iss.LogTokenIssued is commented out: the observer is never read.        *)
IssueResult(i, token) ==
    LET marshalled == protoMarshal(token) IN
    IF marshalled.err # NoError THEN [signed |-> Nil, err |-> marshalled.err]
    ELSE
    LET sgn == Sign(i.signer, marshalled.bytes) IN
    IF sgn.err # NoError THEN [signed |-> Nil, err |-> sgn.err]
    ELSE [signed |-> CompactSerialize(sgn.jws), err |-> NoError]

(* ------------------------------ operations ------------------------------ *)

(* Values of the exported field Issuer.LogTokenIssued: nil, or a function  *)
(* that returns nil, or one that returns an error.                         *)
Observers == {"nil", "succeeds", "fails"}

(* The caller assigns the exported field iss.LogTokenIssued.               *)
SetLogTokenIssued ==
    /\ iss # Nil
    /\ \E f \in Observers \ {iss.LogTokenIssued} :
          iss' = [iss EXCEPT !.LogTokenIssued = f]
    /\ ret' = [op |-> "SetLogTokenIssued"]
    /\ UNCHANGED <<fs, gen, ev, ver, wire, issued, observed>>

(* iss.Issue(token); the string returned goes on the wire.                 *)
IssueClearingObserver ==
    /\ iss # Nil
    /\ \E token \in Tokens \cup {Nil} :
         LET r == IssueResult(iss, token) IN
         /\ wire' = IF r.err = NoError THEN r.signed ELSE wire
         /\ issued' = IF r.err = NoError THEN r.signed ELSE issued
         /\ ret' = [op |-> "Issue", token |-> token, signed |-> r.signed,
                    err |-> r.err, observer |-> iss.LogTokenIssued]
    /\ iss' = [iss EXCEPT !.LogTokenIssued = "nil"]
    /\ UNCHANGED <<fs, gen, ev, ver, observed>>

Issue ==
    /\ iss # Nil
    /\ \E token \in Tokens \cup {Nil} :
         LET r == IssueResult(iss, token) IN
         /\ wire' = IF r.err = NoError THEN r.signed ELSE wire
         /\ issued' = IF r.err = NoError THEN r.signed ELSE issued
         /\ ret' = [op |-> "Issue", token |-> token, signed |-> r.signed,
                    err |-> r.err, observer |-> iss.LogTokenIssued]
    /\ UNCHANGED <<fs, gen, iss, ev, ver, observed>>

(* Strings a holder of an ECDSA private key can produce with a JWS signer  *)
(* of the algorithm of its curve, over any payload.                        *)
SignedElsewhere ==
    { Sign([alg |-> a, key |-> k], p).jws :
        <<a, k>> \in { x \in Algs \X PrivateKeys :
                         /\ x[2].typ = "ecdsa"
                         /\ AlgBits(x[1]) = CurveBits(x[2].curve) },
        p \in Payloads }

(* The s of Verify(s) is whatever string reaches the verifier: here one    *)
(* that did not come from this Issuer.                                     *)
Receive ==
    /\ \E s \in SignedElsewhere \cup {Malformed} : wire' = s
    /\ issued' = Nil
    /\ ret' = [op |-> "Receive"]
    /\ UNCHANGED <<fs, gen, iss, ev, ver, observed>>

(* The issued string with exactly one segment replaced.                    *)
OneSegmentChanged(w) ==
    { [w EXCEPT !.hdr = h] : h \in Algs \ {w.hdr} }
      \cup { [w EXCEPT !.pay = p] : p \in Payloads \ {w.pay} }
      \cup { [w EXCEPT !.sig = g] :
               g \in ({JunkSignature}
                       \cup { Signature(k, w.hdr, w.pay, x) :
                                k \in {q \in PrivateKeys : q.typ = "ecdsa"},
                                x \in {"low", "high"} }) \ {w.sig} }

(* ... or the string this Issuer issued, altered on its way.               *)
Tamper ==
    /\ issued # Nil
    /\ \E s \in OneSegmentChanged(issued) : wire' = s
    /\ ret' = [op |-> "Tamper"]
    /\ UNCHANGED <<fs, gen, iss, ev, ver, issued, observed>>

(* ev.Verify(wire) on the *ecdsaVerifier, at some clock reading.           *)
EcdsaVerify ==
    /\ ev # Nil /\ wire # Nil
    /\ \E unixNano \in Clock :
         LET r == ecdsaVerifierVerify(ev, wire, unixNano) IN
         ret' = [op |-> "EcdsaVerify", v |-> ev, s |-> wire, now |-> unixNano,
                 token |-> r.token, err |-> r.err]
    /\ UNCHANGED <<fs, gen, iss, ev, ver, wire, issued, observed>>

(* The Verifier embedded in the Issuer: its promoted publicKey field.      *)
EmbeddedVerifier(i) == [publicKey |-> i.publicKey]

(* v.Verify(wire) on a *Verifier: the one NewVerifier built or the one     *)
(* embedded in the Issuer.  The clock is not read; now is the time of the  *)
(* call.                                                                   *)
Verify ==
    /\ wire # Nil
    /\ \E v \in ({ver} \cup (IF iss = Nil THEN {} ELSE {EmbeddedVerifier(iss)})) \ {Nil},
          unixNano \in Clock :
         LET r == VerifierVerify(v, wire) IN
         ret' = [op |-> "Verify", v |-> v, s |-> wire, now |-> unixNano,
                 token |-> r.token, err |-> r.err]
    /\ UNCHANGED <<fs, gen, iss, ev, ver, wire, issued, observed>>

(* --------------------------- specifications ----------------------------- *)

Files == { PrivFile(p) : p \in Paths } \cup { PubFile(p) : p \in Paths }

(* Key lifecycle: any content of the key files, nothing constructed yet.   *)
InitKeys ==
    /\ fs \in { f \in [Files -> PrivContents \cup PubContents] :
                  \A p \in Paths : /\ f[PrivFile(p)] \in PrivContents
                                   /\ f[PubFile(p)] \in PubContents }
    /\ gen = [p \in Paths |-> "none"]
    /\ iss = Nil /\ ev = Nil /\ ver = Nil
    /\ wire = Nil /\ issued = Nil
    /\ observed = {}
    /\ ret = [op |-> "init"]

NextKeys == GenerateKeypair \/ NewIssuer \/ NewEcdsaVerifier \/ NewVerifier

SpecKeys == InitKeys /\ [][NextKeys]_vars

(* Token protocol: the state after construction, with every Issuer and     *)
(* verifier the constructors return without error.  Issue and Verify do    *)
(* not read the key files.                                                 *)
Init ==
    /\ fs = [f \in Files |-> NoFile]
    /\ gen = [p \in Paths |-> "none"]
    /\ iss \in { NewIssuerResult(c).iss : c \in PrivContents } \ {Nil}
    /\ ev \in { NewVerifierResult(c).v : c \in PubContents } \ {Nil}
    /\ ver \in { NewVerifierResult(c).v : c \in PubContents } \ {Nil}
    /\ wire = Nil /\ issued = Nil
    /\ observed = {}
    /\ ret = [op |-> "init"]

Next == SetLogTokenIssued \/ Issue \/ Receive \/ Tamper \/ EcdsaVerify \/ Verify

Spec == Init /\ [][Next]_vars

(* -------------------------------- claims ------------------------------- *)

IsVerify == ret.op \in {"EcdsaVerify", "Verify"}

(* The first three stages of Verify pass for ret.s under ret.v.            *)
StagesPass ==
    /\ ret.s # Malformed
    /\ ~ret.s.sig.junk
    /\ ret.s.sig.key = ret.v.publicKey.id
    /\ ret.s.sig.hdr = ret.s.hdr /\ ret.s.sig.pay = ret.s.pay
    /\ CurveBits(ret.v.publicKey.curve) = AlgBits(ret.s.hdr)
    /\ ret.s.pay.enc = (IF ret.op = "EcdsaVerify" THEN "json" ELSE "proto")

(* Expired at the clock reading now: expiration lies in an earlier         *)
(* millisecond than now.                                                   *)
ExpiredAt(token, now) == (token.Expiration + 1) * Millisecond <= now

(* C1: every Verify (ecdsaVerifier.Verify and Verifier.Verify) returns a   *)
(* Token only if the string parsed, the signature verified, the payload    *)
(* decoded and the Token is not expired at verification time; otherwise it *)
(* returns an error and no Token.                                          *)
C1_TokenOnlyAfterAllFourStages ==
    IsVerify =>
      /\ ret.token # Nil => /\ ret.err = NoError
                            /\ StagesPass
                            /\ ~ExpiredAt(ret.token, ret.now)
      /\ ret.token = Nil <=> ret.err # NoError

(* C2: with the first three stages passed, ecdsaVerifier.Verify fails      *)
(* exactly when Expiration < nowMillis: a token with Expiration = now      *)
(* verifies, one with Expiration = now - 1 does not, no grace period.      *)
C2_StrictExpiration ==
    (ret.op = "EcdsaVerify" /\ StagesPass) =>
      LET nowMillis == ret.now \div Millisecond
          exp == ret.s.pay.tok.Expiration
      IN /\ exp >= nowMillis => ret.err = NoError /\ ret.token = ret.s.pay.tok
         /\ exp <= nowMillis - 1 => ret.err = "token has expired" /\ ret.token = Nil
         /\ TokenExpired(ret.s.pay.tok, ret.now) <=> ExpiredAt(ret.s.pay.tok, ret.now)

C2_Witness ==
    /\ ret.op = "EcdsaVerify" /\ StagesPass
    /\ ret.now = ret.s.pay.tok.Expiration * Millisecond + (Millisecond - 1)
    /\ ret.s.pay.tok.Expiration > 0
    /\ ret.err = NoError

(* C3: a token issued by the Issuer and verified, unexpired, by a verifier *)
(* holding the public key of the Issuer's keypair comes back equal to the  *)
(* token that was issued.                                                  *)
C3_RoundTrip ==
    ( /\ IsVerify
      /\ issued # Nil /\ ret.s = issued
      /\ ret.v.publicKey = Public(iss.signer.key)
      /\ issued.pay.tok.Expiration * Millisecond > ret.now ) =>
        ret.err = NoError /\ ret.token = issued.pay.tok

(* C4: with an observer configured, every Issue whose signing succeeded    *)
(* has passed the signed string and the token to the observer, and fails   *)
(* if the observer fails.                                                  *)
C4_ObserverFailClosed ==
    (ret.op = "Issue" /\ ret.observer # "nil" /\ ret.token # Nil) =>
      /\ ret.err = NoError => <<ret.signed, ret.token>> \in observed
      /\ ret.observer = "fails" => ret.err # NoError /\ ret.signed = Nil

(* C5: no Issuer or verifier holds a key that is not an ECDSA key on       *)
(* P-256.                                                                  *)
C5_OnlyP256KeysLoaded ==
    /\ iss # Nil => /\ iss.signer.key.typ = "ecdsa"
                    /\ iss.signer.key.curve = curveName
                    /\ iss.publicKey.curve = curveName
    /\ ev # Nil => ev.publicKey.typ = "ecdsa" /\ ev.publicKey.curve = curveName
    /\ ver # Nil => ver.publicKey.typ = "ecdsa" /\ ver.publicKey.curve = curveName

(* C6: a token issued by the Issuer and verified under the public key of   *)
(* another keypair fails with a signature error and returns no Token,      *)
(* whatever its expiration.                                                *)
C6_WrongKeyRejected ==
    ( /\ IsVerify
      /\ issued # Nil /\ ret.s = issued
      /\ ret.v.publicKey # Public(iss.signer.key) ) =>
        ret.err = "SignatureInvalidError" /\ ret.token = Nil

C6_Witness ==
    /\ IsVerify
    /\ issued # Nil /\ ret.s = issued
    /\ ret.v.publicKey # Public(iss.signer.key)
    /\ ret.v.publicKey.curve = iss.signer.key.curve
    /\ ret.err = "SignatureInvalidError"

(* ret verifies the issued string with one segment changed, under a        *)
(* verifier that accepts the issued string itself.                         *)
TamperedVerify ==
    /\ ret.op = "Verify"
    /\ issued # Nil
    /\ VerifierVerify(ret.v, issued).err = NoError
    /\ ret.s \in OneSegmentChanged(issued)

C8_AlgorithmPinned ==
    (IsVerify /\ ret.s # Malformed /\ ret.s.hdr # curveJose) =>
        ret.err # NoError /\ ret.token = Nil

(* C9: after GenerateKeypair(p) returned without error and nothing else    *)
(* wrote the two files, NewIssuer(p) and NewVerifier(p) succeed and hold   *)
(* the private and the public key of the generated keypair, and every      *)
(* token the Issuer signs passes the verifier's signature check.           *)
C9_KeypairRoundTrip ==
    /\ (ret.op = "NewIssuer" /\ ret.fresh # "none") =>
          /\ ret.err = NoError /\ iss # Nil
          /\ iss.signer.key.id = ret.fresh /\ iss.signer.key.half = "private"
          /\ iss.publicKey = Public(iss.signer.key)
    /\ (ret.op = "NewEcdsaVerifier" /\ ret.fresh # "none") =>
          /\ ret.err = NoError /\ ev # Nil
          /\ ev.publicKey.id = ret.fresh /\ ev.publicKey.half = "public"
    /\ (ret.op = "NewVerifier" /\ ret.fresh # "none") =>
          /\ ret.err = NoError /\ ver # Nil
          /\ ver.publicKey.id = ret.fresh /\ ver.publicKey.half = "public"
    /\ \A v \in {ev, ver} \ {Nil} :
          ( /\ ret.op \in {"NewIssuer", "NewEcdsaVerifier", "NewVerifier"}
            /\ ret.fresh # "none"
            /\ iss # Nil /\ iss.signer.key.id = ret.fresh
            /\ v.publicKey.id = ret.fresh ) =>
              \A t \in Tokens :
                 /\ IssueResult(iss, t).err = NoError
                 /\ jwsVerify(ParseSigned(IssueResult(iss, t).signed).jws,
                              v.publicKey).err = NoError

C9_Witness ==
    /\ ret.op = "NewVerifier" /\ ret.fresh # "none"
    /\ iss # Nil /\ iss.signer.key.id = ret.fresh
    /\ ver # Nil /\ ver.publicKey.id = ret.fresh
    /\ ev # Nil /\ ev.publicKey.id = ret.fresh

====
